---------------------------- MODULE Spec2Model ----------------------------
(***************************************************************************)
(* A model of the QOI decoder of this repository.                          *)
(*                                                                         *)
(* src/src/parser.rs holds the hand-written decoder (parse_image_header,   *)
(* parse_image_content and the opcode handlers); src/src/lib.rs holds the  *)
(* QoiDecoder wrapper together with a combinator-based parse_image_header  *)
(* and parse_image_content of its own.  Both are modelled; the definitions *)
(* taken from lib.rs carry the prefix lib_.                                *)
(***************************************************************************)
EXTENDS Integers, Sequences, FiniteSets, TLC

VARIABLES
    pc,            \* position: which function is running / has returned
    header_bytes,  \* the argument of parse_image_header
    hres,          \* what parse_image_header returned
    header,        \* the Header handed to parse_image_content
    content_bytes, \* the payload handed to parse_image_content
    bytes_left,    \* parse_image_content: the unread payload
    pixels,        \* parse_image_content: the output Vec<u8>
    state,         \* parse_image_content: ParserState {prev, seen, is_alpha}
    result_len,    \* parse_image_content: the target length
    last_op,       \* the handler that accepted in the last loop iteration
    produced,      \* the pixels decoded so far, in order (lib.rs: Vec<Pixel>)
    result         \* what parse_image_content returned

vars == <<pc, header_bytes, hres, header, content_bytes, bytes_left, pixels, state,
          result_len, last_op, produced, result>>

---------------------------------------------------------------------------
(* Bounds of the model *)

\* widths 0..MaxWidth, plus BigDim
MaxWidth == 2
\* a payload holds at most MaxChunks complete opcodes
MaxChunks == 2

\* a dimension whose square does not fit 32 bits
BigDim == 2 ^ 16

U8 == 2 ^ 8
U16 == 2 ^ 16

Widths == (0 .. MaxWidth) \cup {BigDim}
Heights == {1, BigDim}

---------------------------------------------------------------------------
(* Types of lib.rs *)

\* enum Channels { Rgb = 3, Rgba = 4 }
Channels == {"Rgb", "Rgba"}
\* enum Colorspace { Srgb = 0, Linear = 1 }
Colorspace == {"Srgb", "Linear"}

\* struct Pixel { red, green, blue, alpha }
Pixel(r, g, b, a) == [red |-> r, green |-> g, blue |-> b, alpha |-> a]

\* Pixel's derived Default: every channel 0
DefaultPixel == Pixel(0, 0, 0, 0)

\* struct Header { width, height, channels, colorspace }
Header(w, h, ch, cs) == [width |-> w, height |-> h, channels |-> ch, colorspace |-> cs]

NoHeader == Header(0, 0, "Rgb", "Srgb")

---------------------------------------------------------------------------
(* The primitive readers of parser.rs.  Each returns a record whose res    *)
(* is "Ok", "Recoverable" or "Invalid" (enum ParserError).                 *)

Drop(s, n) == SubSeq(s, n + 1, Len(s))

\* const QOIF_MAGIC = b"qoif"
QOIF_MAGIC == <<113, 111, 105, 102>>

(* fn tag(tag, input).  Here and in u8 the set binding i \in {input} makes *)
(* the slice a value that is computed once, as the callee's parameter is.  *)
tag(t, input) ==
    CHOOSE o \in {IF Len(i) < Len(t) THEN [res |-> "Invalid"]
                  ELSE IF SubSeq(i, 1, Len(t)) = t
                       THEN [res |-> "Ok", rest |-> Drop(i, Len(t))]
                       ELSE [res |-> "Recoverable"] :
                  i \in {input}} : TRUE

\* the four bytes read in the opposite byte order
from_le_bytes(b) == b[4] * 2 ^ 24 + b[3] * 2 ^ 16 + b[2] * 2 ^ 8 + b[1]

\* u32::from_be_bytes
from_be_bytes(b) == b[1] * 2 ^ 24 + b[2] * 2 ^ 16 + b[3] * 2 ^ 8 + b[4]

\* fn be_u32(input)
be_u32(input) ==
    IF Len(input) < 4 THEN [res |-> "Invalid"]
    ELSE [res |-> "Ok", num |-> from_be_bytes(SubSeq(input, 1, 4)), rest |-> Drop(input, 4)]

\* fn u8(input)
u8(input) ==
    CHOOSE o \in {IF i = <<>> THEN [res |-> "Invalid"]
                  ELSE [res |-> "Ok", num |-> i[1], rest |-> Drop(i, 1)] :
                  i \in {input}} : TRUE

---------------------------------------------------------------------------
(* parse_image_header of parser.rs *)

Err(kind) == [ok |-> FALSE, kind |-> kind, header |-> NoHeader]
OkHeader(h) == [ok |-> TRUE, kind |-> "Ok", header |-> h]

\* header_fields with the colorspace byte validated before the channel byte
header_fields_colorspace_first(rest) ==
    LET w == be_u32(rest) IN
    IF w.res # "Ok" THEN Err("TooShortHeader") ELSE
    LET h == be_u32(w.rest) IN
    IF h.res # "Ok" THEN Err("TooShortHeader") ELSE
    LET c == u8(h.rest) IN
    IF c.res # "Ok" THEN Err("TooShortHeader") ELSE
    LET s == u8(c.rest) IN
    IF s.res # "Ok" THEN Err("TooShortHeader") ELSE
    IF s.num \notin {0, 1} THEN Err("InvalidColorspace") ELSE
    IF c.num \notin {3, 4} THEN Err("InvalidChannels") ELSE
    OkHeader(Header(w.num, h.num,
                    IF c.num = 3 THEN "Rgb" ELSE "Rgba",
                    IF s.num = 0 THEN "Srgb" ELSE "Linear"))

\* the reads that follow the magic: width, height, channels, colorspace
header_fields(rest) ==
    LET w == be_u32(rest) IN
    IF w.res # "Ok" THEN Err("TooShortHeader") ELSE
    LET h == be_u32(w.rest) IN
    IF h.res # "Ok" THEN Err("TooShortHeader") ELSE
    LET c == u8(h.rest) IN
    IF c.res # "Ok" THEN Err("TooShortHeader") ELSE
    IF c.num \notin {3, 4} THEN Err("InvalidChannels") ELSE
    LET s == u8(c.rest) IN
    IF s.res # "Ok" THEN Err("TooShortHeader") ELSE
    IF s.num \notin {0, 1} THEN Err("InvalidColorspace") ELSE
    OkHeader(Header(w.num, h.num,
                    IF c.num = 3 THEN "Rgb" ELSE "Rgba",
                    IF s.num = 0 THEN "Srgb" ELSE "Linear"))

\* parse_image_header with the length of the input checked before the magic
parse_image_header_length_first(hb) ==
    IF Len(hb) < 14 THEN Err("TooShortHeader")
    ELSE LET m == tag(QOIF_MAGIC, hb) IN
         IF m.res # "Ok" THEN Err("InvalidMagic") ELSE header_fields(m.rest)

\* tag(QOIF_MAGIC, header_bytes).map_err(|_| InvalidMagic)?, then the fields
parse_image_header(hb) ==
    LET m == tag(QOIF_MAGIC, hb) IN
    IF m.res # "Ok" THEN Err("InvalidMagic") ELSE header_fields(m.rest)

(* parse_image_header of lib.rs: preceded(b"qoif", (be_u32, be_u32,        *)
(* u8.verify_map, u8.verify_map)) run with Parser::parse, which also fails *)
(* when input is left over.  Every failure is an Err(String).              *)
lib_parse_image_header(hb) ==
    IF Len(hb) # 14 THEN Err("Err")
    ELSE IF SubSeq(hb, 1, 4) # QOIF_MAGIC THEN Err("Err")
    ELSE IF hb[13] \notin {3, 4} THEN Err("Err")
    ELSE IF hb[14] \notin {0, 1} THEN Err("Err")
    ELSE OkHeader(Header(from_be_bytes(SubSeq(hb, 5, 8)),
                         from_be_bytes(SubSeq(hb, 9, 12)),
                         IF hb[13] = 3 THEN "Rgb" ELSE "Rgba",
                         IF hb[14] = 0 THEN "Srgb" ELSE "Linear"))

---------------------------------------------------------------------------
(* The header inputs the model feeds: every prefix of a 14-byte header     *)
(* built from a magic, two big-endian dimensions, a channel byte and a     *)
(* colorspace byte, valid or not.                                          *)

\* u32::to_be_bytes, as the tests build their headers
to_be_bytes(n) ==
    <<(n \div 2 ^ 24) % U8, (n \div 2 ^ 16) % U8, (n \div 2 ^ 8) % U8, n % U8>>

\* b"qoi#", the wrong magic of the test decode_invalid_magic
BadMagic == <<113, 111, 105, 35>>

ChannelBytes == {3, 4, 5}
ColorspaceBytes == {0, 1, 2}

HeaderBytes(m, w, h, c, s) == m \o to_be_bytes(w) \o to_be_bytes(h) \o <<c, s>>

FullHeaders ==
    {HeaderBytes(m, w, h, c, s) :
        m \in {QOIF_MAGIC, BadMagic}, w \in Widths, h \in Heights,
        c \in ChannelBytes, s \in ColorspaceBytes}

HeaderInputs == {SubSeq(f, 1, n) : f \in FullHeaders, n \in 0 .. 14}

---------------------------------------------------------------------------

(* The opcode handlers of parser.rs.  A handler returns "Recoverable" or  *)
(* "Invalid" and changes nothing, or "Ok" with the remaining input, the    *)
(* output and the decode state as it leaves them.                          *)

\* u8::saturating_add and u8::saturating_sub, which clamp instead of wrapping
saturating_add(a, b) == IF a + b >= U8 THEN U8 - 1 ELSE a + b
saturating_sub(a, b) == IF a < b THEN 0 ELSE a - b

wrapping_add(a, b) == (a + b) % U8
wrapping_sub(a, b) == (a - b + U8) % U8

Fail(r) == [res |-> r]
\* out lists the pixels the handler handed to push_pixel / push_pixels
Accept(input, px, st, out) ==
    [res |-> "Ok", input |-> input, pixels |-> px, state |-> st, out |-> out]

\* fn hash_pixel(pixel), computed in usize
hash_pixel(pixel) ==
    (pixel.red * 3 + pixel.green * 5 + pixel.blue * 7 + pixel.alpha * 11) % 64

\* a cache that never evicts: a slot already taken keeps its pixel
update_state_keep_first(pixel, st) ==
    [st EXCEPT !.prev = pixel,
               !.seen[hash_pixel(pixel)] =
                   IF st.seen[hash_pixel(pixel)] = DefaultPixel THEN pixel ELSE @]

\* fn update_state(pixel, state)
update_state(pixel, st) ==
    [st EXCEPT !.prev = pixel, !.seen[hash_pixel(pixel)] = pixel]

\* fn push_pixel(pixels, pixel, is_alpha)
push_pixel(px, pixel, is_alpha) ==
    IF is_alpha
    THEN px \o <<pixel.red, pixel.green, pixel.blue, pixel.alpha>>
    ELSE px \o <<pixel.red, pixel.green, pixel.blue>>

\* the i-th of the bytes that n pushes of red, green, blue (, alpha) append
Channel(pixel, i, n) ==
    CASE (i - 1) % n = 0 -> pixel.red
      [] (i - 1) % n = 1 -> pixel.green
      [] (i - 1) % n = 2 -> pixel.blue
      [] (i - 1) % n = 3 -> pixel.alpha

\* fn push_pixels(pixels, pixel, run, is_alpha): run times four (three) pushes
push_pixels(px, pixel, run, is_alpha) ==
    IF is_alpha
    THEN px \o [i \in 1 .. 4 * run |-> Channel(pixel, i, 4)]
    ELSE px \o [i \in 1 .. 3 * run |-> Channel(pixel, i, 3)]

\* the top two bits of a tag byte: (byte & 0b11000000) >> 6
TopBits(byte) == byte \div 64

qoi_op_rgb(input, px, st) ==
    LET t == tag(<<254>>, input) IN
    IF t.res # "Ok" THEN Fail(t.res) ELSE
    LET r == u8(t.rest) IN
    IF r.res # "Ok" THEN Fail(r.res) ELSE
    LET g == u8(r.rest) IN
    IF g.res # "Ok" THEN Fail(g.res) ELSE
    LET b == u8(g.rest) IN
    IF b.res # "Ok" THEN Fail(b.res) ELSE
    LET pixel == Pixel(r.num, g.num, b.num, st.prev.alpha) IN
    Accept(b.rest, push_pixel(px, pixel, st.is_alpha), update_state(pixel, st), <<pixel>>)

qoi_op_rgba(input, px, st) ==
    LET t == tag(<<255>>, input) IN
    IF t.res # "Ok" THEN Fail(t.res) ELSE
    LET r == u8(t.rest) IN
    IF r.res # "Ok" THEN Fail(r.res) ELSE
    LET g == u8(r.rest) IN
    IF g.res # "Ok" THEN Fail(g.res) ELSE
    LET b == u8(g.rest) IN
    IF b.res # "Ok" THEN Fail(b.res) ELSE
    LET a == u8(b.rest) IN
    IF a.res # "Ok" THEN Fail(a.res) ELSE
    LET pixel == Pixel(r.num, g.num, b.num, a.num) IN
    Accept(a.rest, push_pixel(px, pixel, st.is_alpha), update_state(pixel, st), <<pixel>>)

qoi_op_index(input, px, st) ==
    LET y == u8(input) IN
    IF y.res # "Ok" THEN Fail(y.res) ELSE
    IF TopBits(y.num) # 0 THEN Fail("Recoverable") ELSE
    LET pixel == st.seen[y.num] IN
    Accept(y.rest, push_pixel(px, pixel, st.is_alpha), update_state(pixel, st), <<pixel>>)

qoi_op_diff(input, px, st) ==
    LET y == u8(input) IN
    IF y.res # "Ok" THEN Fail(y.res) ELSE
    IF TopBits(y.num) # 1 THEN Fail("Recoverable") ELSE
    LET dr == wrapping_sub((y.num \div 16) % 4, 2)
        dg == wrapping_sub((y.num \div 4) % 4, 2)
        db == wrapping_sub(y.num % 4, 2)
        pixel == Pixel(wrapping_add(st.prev.red, dr),
                       wrapping_add(st.prev.green, dg),
                       wrapping_add(st.prev.blue, db),
                       st.prev.alpha)
    IN Accept(y.rest, push_pixel(px, pixel, st.is_alpha), update_state(pixel, st), <<pixel>>)

qoi_op_luma(input, px, st) ==
    LET y1 == u8(input) IN
    IF y1.res # "Ok" THEN Fail(y1.res) ELSE
    IF TopBits(y1.num) # 2 THEN Fail("Recoverable") ELSE
    LET dg == wrapping_sub(y1.num % 64, 32)
        y2 == u8(y1.rest)
    IN
    IF y2.res # "Ok" THEN Fail(y2.res) ELSE
    LET dr == wrapping_add(dg, wrapping_sub(y2.num \div 16, 8))
        db == wrapping_add(dg, wrapping_sub(y2.num % 16, 8))
        pixel == Pixel(wrapping_add(st.prev.red, dr),
                       wrapping_add(st.prev.green, dg),
                       wrapping_add(st.prev.blue, db),
                       st.prev.alpha)
    IN Accept(y2.rest, push_pixel(px, pixel, st.is_alpha), update_state(pixel, st), <<pixel>>)

\* the run length without the + 1
RunLength_low_bits(byte) == byte % 64

\* the run length of a RUN byte: (byte & 0b00111111).wrapping_add(1)
RunLength(byte) == wrapping_add(byte % 64, 1)

qoi_op_run(input, px, st) ==
    LET y == u8(input) IN
    IF y.res # "Ok" THEN Fail(y.res) ELSE
    IF TopBits(y.num) # 3 THEN Fail("Recoverable") ELSE
    Accept(y.rest,
           push_pixels(px, st.prev, RunLength(y.num), st.is_alpha),
           update_state(st.prev, st),
           <<>> \o [i \in 1 .. RunLength(y.num) |-> st.prev])

\* the 8-byte end marker
EndMarker == <<0, 0, 0, 0, 0, 0, 0, 1>>
\* an end-marker handler that reports success and hands back its whole input
qoi_op_end_keeps_input(input, px, st) ==
    LET t == tag(EndMarker, input) IN
    IF t.res # "Ok" THEN Fail(t.res) ELSE Accept(input, px, st, <<>>)


qoi_op_end(input, px, st) ==
    LET t == tag(EndMarker, input) IN
    IF t.res # "Ok" THEN Fail(t.res) ELSE Accept(t.rest, px, st, <<>>)

---------------------------------------------------------------------------
\* the handlers with the two full-byte tags tried after the 2-bit tags
Parsers_tags_last ==
    <<"qoi_op_end", "qoi_op_index", "qoi_op_diff", "qoi_op_luma", "qoi_op_run",
      "qoi_op_rgb", "qoi_op_rgba">>

\* the handlers without the last one
Parsers_without_run ==
    <<"qoi_op_rgb", "qoi_op_rgba", "qoi_op_end", "qoi_op_index", "qoi_op_diff",
      "qoi_op_luma">>

\* the handlers with the end marker tried last
Parsers_end_last ==
    <<"qoi_op_rgb", "qoi_op_rgba", "qoi_op_index", "qoi_op_diff", "qoi_op_luma",
      "qoi_op_run", "qoi_op_end">>

(* The dispatch of parse_image_content's loop body: the handlers are tried *)
(* in the order of the array literal; Recoverable moves on to the next,    *)
(* Invalid returns TooFewPixels, Ok ends the iteration, and falling off    *)
(* the end of the array returns InvalidPixel.                              *)
Parsers ==
    <<"qoi_op_rgb", "qoi_op_rgba", "qoi_op_end", "qoi_op_index",
      "qoi_op_diff", "qoi_op_luma", "qoi_op_run">>

Apply(parser, input, px, st) ==
    CASE parser = "qoi_op_rgb" -> qoi_op_rgb(input, px, st)
      [] parser = "qoi_op_rgba" -> qoi_op_rgba(input, px, st)
      [] parser = "qoi_op_end" -> qoi_op_end(input, px, st)
      [] parser = "qoi_op_index" -> qoi_op_index(input, px, st)
      [] parser = "qoi_op_diff" -> qoi_op_diff(input, px, st)
      [] parser = "qoi_op_luma" -> qoi_op_luma(input, px, st)
      [] parser = "qoi_op_run" -> qoi_op_run(input, px, st)

RECURSIVE TryParsers(_, _, _, _)
TryParsers(i, input, px, st) ==
    IF i > Len(Parsers) THEN [res |-> "InvalidPixel"]
    ELSE LET r == Apply(Parsers[i], input, px, st) IN
         CASE r.res = "Recoverable" -> TryParsers(i + 1, input, px, st)
           [] r.res = "Invalid" -> [res |-> "TooFewPixels"]
           [] r.res = "Ok" -> [res |-> "Ok", op |-> Parsers[i], input |-> r.input,
                               pixels |-> r.pixels, state |-> r.state, out |-> r.out]

PixelBlock(input, px, st) == TryParsers(1, input, px, st)

---------------------------------------------------------------------------
(* The payloads the model feeds: at most MaxChunks complete opcodes        *)
(* followed by nothing, by the end marker or by a truncated opcode.        *)

Chunks ==
    {<<254, 0, 127, 255>>,     \* RGB
     <<255, 1, 2, 3, 53>>,     \* RGBA, index position 41 as the RGB pixel
     EndMarker,
     <<41>>,                   \* INDEX 41, the slot of (0,127,255,255)
     <<71>>,                   \* DIFF 0b01000111
     <<138, 241>>,             \* LUMA 0b10001010 0b11110001
     <<192>>,                  \* RUN, low bits 0
     <<253>>}                  \* RUN, low bits 61

Tails ==
    {<<>>,
     EndMarker,
     <<254, 1>>,               \* an RGB tag and one byte
     <<255, 1, 2, 3>>,         \* an RGBA tag and three bytes
     <<138>>}                  \* the first byte of a LUMA alone

RECURSIVE BodiesOf(_)
BodiesOf(n) ==
    IF n = 0 THEN {<<>>}
    ELSE LET P == BodiesOf(n - 1) IN P \cup {p \o c : p \in P, c \in Chunks}

Payloads == {b \o t : b \in BodiesOf(MaxChunks), t \in Tails}

---------------------------------------------------------------------------
(* parse_image_content of parser.rs *)

\* the number of bytes per pixel of the target length
ChannelCount(ch) == IF ch = "Rgba" THEN 4 ELSE 3

(* The product of two u32 values, from their 16-bit halves: whether the    *)
(* exact product needs more than 32 bits, and its low 32 bits.             *)
u32_mul(a, b) ==
    LET ah == a \div U16
        al == a % U16
        bh == b \div U16
        bl == b % U16
        low == al * bl
        mid == ah * bl + al * bh + (low \div U16)
    IN [overflow |-> (ah * bh > 0) \/ (mid >= U16),
        wrapped |-> (mid % U16) * U16 + (low % U16)]

\* header.height * header.width * 4 (or 3), evaluated left to right in u32
TargetLen(h) ==
    LET hw == u32_mul(h.height, h.width)
        all == u32_mul(hw.wrapped, ChannelCount(h.channels))
    IN [overflow |-> hw.overflow \/ all.overflow, wrapped |-> all.wrapped]

InitState ==
    [prev |-> Pixel(0, 0, 0, 255),
     seen |-> [i \in 0 .. 63 |-> DefaultPixel],
     is_alpha |-> FALSE]

NoResult == [kind |-> "None", buffer |-> <<>>]
Failure(kind) == [kind |-> kind, buffer |-> <<>>]
Success(buffer) == [kind |-> "Ok", buffer |-> buffer]

(* parse_image_content of lib.rs: the handlers run over a                 *)
(* Stateful<&[u8], ParserState>, pixels_parser is                          *)
(* repeat(0.., alt((qoi_op_rgb, qoi_op_rgba, qoi_op_index, qoi_op_diff))), *)
(* run with Parser::parse, which fails when input is left over.  A handler *)
(* returns "Backtrack" and changes nothing, or "Ok"; the u8 arithmetic of  *)
(* hash_pixel panics in a build with overflow checks ("Panic").            *)

\* fn hash_pixel(pixel), computed in u8
lib_hash_pixel(pixel, overflow_checks) ==
    LET p1 == pixel.red * 3
        p2 == pixel.green * 5
        p3 == pixel.blue * 7
        p4 == pixel.alpha * 11
        s1 == (p1 % U8) + (p2 % U8)
        s2 == (s1 % U8) + (p3 % U8)
        s3 == (s2 % U8) + (p4 % U8)
    IN [panic |-> overflow_checks /\ (\E x \in {p1, p2, p3, p4, s1, s2, s3} : x >= U8),
        value |-> (s3 % U8) % 64]

\* i.state.prev = pixel; i.state.seen[hash_pixel(pixel)] = pixel; Ok(pixel)
lib_Store(input, st, pixel, overflow_checks) ==
    LET h == lib_hash_pixel(pixel, overflow_checks) IN
    IF h.panic THEN [res |-> "Panic"]
    ELSE [res |-> "Ok", input |-> input, pixel |-> pixel,
          state |-> [st EXCEPT !.prev = pixel, !.seen[h.value] = pixel]]

lib_qoi_op_rgb(input, st, overflow_checks) ==
    IF Len(input) >= 4 /\ input[1] = 254
    THEN lib_Store(Drop(input, 4), st,
                   Pixel(input[2], input[3], input[4], st.prev.alpha), overflow_checks)
    ELSE [res |-> "Backtrack"]

lib_qoi_op_rgba(input, st, overflow_checks) ==
    IF Len(input) >= 5 /\ input[1] = 255
    THEN lib_Store(Drop(input, 5), st,
                   Pixel(input[2], input[3], input[4], input[5]), overflow_checks)
    ELSE [res |-> "Backtrack"]

lib_qoi_op_index(input, st, overflow_checks) ==
    IF Len(input) >= 1 /\ TopBits(input[1]) = 0
    THEN lib_Store(Drop(input, 1), st, st.seen[input[1]], overflow_checks)
    ELSE [res |-> "Backtrack"]

\* returns the pixel and leaves i.state as it is
lib_qoi_op_diff(input, st) ==
    IF Len(input) >= 1 /\ TopBits(input[1]) = 1
    THEN LET dr == ((input[1] \div 16) % 4) - 2
             dg == ((input[1] \div 4) % 4) - 2
             db == (input[1] % 4) - 2
         IN [res |-> "Ok", input |-> Drop(input, 1), state |-> st,
             pixel |-> Pixel((st.prev.red + dr + U8) % U8,
                             (st.prev.green + dg + U8) % U8,
                             (st.prev.blue + db + U8) % U8,
                             st.prev.alpha)]
    ELSE [res |-> "Backtrack"]

\* alt((qoi_op_rgb, qoi_op_rgba, qoi_op_index, qoi_op_diff))
lib_alt(input, st, overflow_checks) ==
    LET a == lib_qoi_op_rgb(input, st, overflow_checks) IN
    IF a.res # "Backtrack" THEN a ELSE
    LET b == lib_qoi_op_rgba(input, st, overflow_checks) IN
    IF b.res # "Backtrack" THEN b ELSE
    LET c == lib_qoi_op_index(input, st, overflow_checks) IN
    IF c.res # "Backtrack" THEN c ELSE
    lib_qoi_op_diff(input, st)

\* fn pixels_parser: repeat(0.., alt(...))
RECURSIVE lib_pixels_parser(_, _, _, _)
lib_pixels_parser(input, st, acc, overflow_checks) ==
    LET r == lib_alt(input, st, overflow_checks) IN
    CASE r.res = "Backtrack" ->
             [res |-> "Ok", input |-> input, pixels |-> acc, state |-> st]
      [] r.res = "Panic" ->
             [res |-> "Panic", input |-> input, pixels |-> acc, state |-> st]
      [] r.res = "Ok" -> lib_pixels_parser(r.input, r.state, Append(acc, r.pixel),
                                           overflow_checks)

\* the loop for pixel in pixels of lib.rs (lines 182-189)
lib_pack(px, channels) ==
    IF channels = "Rgb"
    THEN <<>> \o [i \in 1 .. 4 * Len(px) |-> Channel(px[((i - 1) \div 4) + 1], i, 4)]
    ELSE <<>> \o [i \in 1 .. 3 * Len(px) |-> Channel(px[((i - 1) \div 3) + 1], i, 3)]

lib_InitState ==
    [prev |-> Pixel(0, 0, 0, 255), seen |-> [i \in 0 .. 63 |-> DefaultPixel]]

\* state is the ParserState of the Stream when pixels_parser stopped
lib_parse_image_content(input, h, overflow_checks) ==
    LET p == lib_pixels_parser(input, lib_InitState, <<>>, overflow_checks) IN
    IF p.res = "Panic"
    THEN [result |-> Failure("Panic"), pixels |-> <<>>, state |-> p.state]
    ELSE IF p.input # <<>>
    THEN [result |-> Failure("Err"), pixels |-> <<>>, state |-> p.state]
    ELSE IF TargetLen(h).overflow /\ overflow_checks
    THEN [result |-> Failure("Panic"), pixels |-> p.pixels, state |-> p.state]
    ELSE [result |-> Success(lib_pack(p.pixels, h.channels)),
          pixels |-> p.pixels, state |-> p.state]

\* QoiDecoder::color_type
color_type(h) == IF h.channels = "Rgb" THEN "Rgb8" ELSE "Rgba8"

---------------------------------------------------------------------------

Init ==
    /\ pc = "idle"
    /\ header_bytes = <<>>
    /\ hres = Err("None")
    /\ header = NoHeader
    /\ content_bytes = <<>>
    /\ bytes_left = <<>>
    /\ pixels = <<>>
    /\ state = InitState
    /\ result_len = 0
    /\ last_op = "none"
    /\ produced = <<>>
    /\ result = NoResult

\* a caller hands some bytes to parser.rs's parse_image_header
ParseImageHeaderOf(inputs) ==
    /\ pc = "idle"
    /\ \E hb \in inputs :
          /\ header_bytes' = hb
          /\ hres' = parse_image_header(hb)
    /\ pc' = "header_done"
    /\ UNCHANGED <<header, content_bytes, bytes_left, pixels, state, result_len,
                   last_op, produced, result>>

\* a caller hands some bytes to lib.rs's parse_image_header
LibParseImageHeaderOf(inputs) ==
    /\ pc = "idle"
    /\ \E hb \in inputs :
          /\ header_bytes' = hb
          /\ hres' = lib_parse_image_header(hb)
    /\ pc' = "lib_header_done"
    /\ UNCHANGED <<header, content_bytes, bytes_left, pixels, state, result_len,
                   last_op, produced, result>>

(* parse_image_content up to its loop (lines 42-63), called with the       *)
(* parsed header and some payload.  The u32 product panics in a build with *)
(* overflow checks and wraps in one without.                               *)
ParseImageContentBeginOf(payloads) ==
    /\ pc = "header_done"
    /\ hres.ok
    /\ \E payload \in payloads, overflow_checks \in BOOLEAN :
          /\ content_bytes' = payload
          /\ IF TargetLen(hres.header).overflow /\ overflow_checks
                THEN /\ pc' = "done"
                     /\ result' = Failure("Panic")
                     /\ UNCHANGED <<bytes_left, pixels, state, result_len>>
                ELSE /\ pc' = "loop"
                     /\ result_len' = TargetLen(hres.header).wrapped
                     /\ pixels' = <<>>
                     /\ bytes_left' = payload
                     /\ state' = [InitState EXCEPT
                                     !.is_alpha = (hres.header.channels = "Rgba")]
                     /\ UNCHANGED result
    /\ header' = hres.header
    /\ header_bytes' = <<>>
    /\ UNCHANGED <<hres, last_op, produced>>

\* one iteration of while !bytes_left.is_empty() (lines 65-87)
LoopIteration ==
    /\ pc = "loop"
    /\ bytes_left # <<>>
    /\ \E r \in {PixelBlock(bytes_left, pixels, state)} :
          IF r.res = "Ok"
          THEN /\ bytes_left' = r.input
               /\ pixels' = r.pixels
               /\ state' = r.state
               /\ last_op' = r.op
               /\ produced' = produced \o r.out
               /\ UNCHANGED <<pc, result>>
          ELSE /\ pc' = "done"
               /\ result' = Failure(r.res)
               /\ UNCHANGED <<bytes_left, pixels, state, last_op, produced>>
    /\ UNCHANGED <<header_bytes, hres, header, content_bytes, result_len>>

\* the loop has ended: the two length checks and the return (lines 89-97)
LoopExit ==
    /\ pc = "loop"
    /\ bytes_left = <<>>
    /\ pc' = "done"
    /\ result' = IF Len(pixels) < result_len THEN Failure("TooFewPixels")
                 ELSE IF Len(pixels) > result_len THEN Failure("TooManyPixels")
                 ELSE Success(pixels)
    /\ UNCHANGED <<header_bytes, hres, header, content_bytes, bytes_left, pixels,
                   state, result_len, last_op, produced>>

(* QoiDecoder::into_reader of lib.rs calls lib.rs's parse_image_content    *)
(* with the header of the decoder and the rest of the file.                *)
LibParseImageContentOf(payloads) ==
    /\ pc = "lib_header_done"
    /\ hres.ok
    /\ \E payload \in payloads, overflow_checks \in BOOLEAN :
          LET r == lib_parse_image_content(payload, hres.header, overflow_checks) IN
          /\ content_bytes' = payload
          /\ result' = r.result
          /\ produced' = r.pixels
          /\ state' = r.state
    /\ pc' = "lib_done"
    /\ header' = hres.header
    /\ header_bytes' = <<>>
    /\ UNCHANGED <<hres, bytes_left, pixels, result_len, last_op>>

(* The calls on the inputs of the model: headers of all lengths with both  *)
(* magics, payloads of whole opcodes with a tail.                          *)
ParseImageHeader == ParseImageHeaderOf(HeaderInputs)
LibParseImageHeader == LibParseImageHeaderOf(HeaderInputs)
ParseImageContentBegin == ParseImageContentBeginOf(Payloads)
LibParseImageContent == LibParseImageContentOf(Payloads)

Next ==
    \/ ParseImageHeader
    \/ LibParseImageHeader
    \/ ParseImageContentBegin
    \/ LoopIteration
    \/ LoopExit
    \/ LibParseImageContent

Spec == Init /\ [][Next]_vars

---------------------------------------------------------------------------
(* The same calls on inputs chosen opcode by opcode: a 1x1 header, and     *)
(* payloads that put every byte value at an opcode boundary, every DIFF    *)
(* byte and a grid of LUMA byte pairs behind pixels at the edges of the    *)
(* 8-bit range, RGB behind RGBA, and one RGBA pixel from a grid of channel *)
(* values around the points where the index position sum leaves 8 bits.    *)

OpHeaders == {HeaderBytes(QOIF_MAGIC, 1, 1, c, 0) : c \in {3, 4}}

EdgeChannels == {0, 1, 2, 127, 254, 255}
HashChannels == {0, 1, 23, 24, 85, 86, 128, 255}
LumaSecondBytes == {0, 15, 121, 136, 240, 241, 255}

AnyBytePayloads ==
    {<<b>> \o t : b \in 0 .. 255,
                  t \in {<<>>, <<0, 0, 0, 0, 0, 0, 1>>, <<9, 9, 9>> \o EndMarker}}
DiffPayloads ==
    {<<254, x, x, x, d>> \o EndMarker : x \in EdgeChannels, d \in 64 .. 127}
LumaPayloads ==
    {<<254, x, x, x, l, m>> \o EndMarker :
        x \in EdgeChannels, l \in 128 .. 191, m \in LumaSecondBytes}
RgbPayloads ==
    {<<255, 1, 2, 3, a, 254, x, 127, 255 - x>> : a \in HashChannels, x \in EdgeChannels}
RgbaPayloads ==
    {<<255, r, g, b, a>> :
        r \in HashChannels, g \in HashChannels, b \in HashChannels,
        a \in HashChannels}
OpPayloads ==
    AnyBytePayloads \cup DiffPayloads \cup LumaPayloads \cup RgbPayloads
        \cup RgbaPayloads

OpParseImageHeader == ParseImageHeaderOf(OpHeaders)
OpLibParseImageHeader == LibParseImageHeaderOf(OpHeaders)
OpParseImageContentBegin == ParseImageContentBeginOf(OpPayloads)
OpLibParseImageContent == LibParseImageContentOf(OpPayloads)

OpNext ==
    \/ OpParseImageHeader
    \/ OpLibParseImageHeader
    \/ OpParseImageContentBegin
    \/ LoopIteration
    \/ LoopExit
    \/ OpLibParseImageContent

OpSpec == Init /\ [][OpNext]_vars

---------------------------------------------------------------------------
(* The decode of parser.rs alone, on a 1x1 header and the payloads of      *)
(* whole opcodes with a tail.  parse_image_content is straight-line        *)
(* sequential code: once called, the loop keeps taking its next iteration  *)
(* and, when the input is empty, the checks behind it, whence the weak     *)
(* fairness on the two.                                                    *)

LoopNext ==
    \/ OpParseImageHeader
    \/ ParseImageContentBegin
    \/ LoopIteration
    \/ LoopExit

LoopSpec ==
    /\ Init
    /\ [][LoopNext]_vars
    /\ WF_vars(LoopIteration)
    /\ WF_vars(LoopExit)


---------------------------------------------------------------------------
(* Vocabulary of the properties *)

\* n = w * h, stated without forming the product
IsProduct(n, w, h) ==
    IF w = 0 THEN n = 0 ELSE (n % w = 0) /\ (n \div w = h)

\* n > w * h, stated without forming the product
ExceedsProduct(n, w, h) ==
    IF w = 0 THEN n > 0
    ELSE (n \div w > h) \/ ((n \div w = h) /\ (n % w > 0))

\* n < w * h
BelowProduct(n, w, h) == ~IsProduct(n, w, h) /\ ~ExceedsProduct(n, w, h)

\* parser.rs's parse_image_content has returned
Returned == pc = "done"

(* The number of pixels a payload encodes when it is read as a sequence of *)
(* complete pixel opcodes (RGB 4 bytes, RGBA 5, INDEX 1, DIFF 1, LUMA 2,   *)
(* RUN 1 byte standing for low 6 bits + 1 pixels); -1 when it ends inside  *)
(* an opcode.                                                              *)
RECURSIVE OpcodePixels(_)
OpcodePixels(p) ==
    IF p = <<>> THEN 0
    ELSE LET size == CASE p[1] = 254 -> 4
                       [] p[1] = 255 -> 5
                       [] TopBits(p[1]) = 2 -> 2
                       [] OTHER -> 1
             count == IF p[1] \notin {254, 255} /\ TopBits(p[1]) = 3
                      THEN (p[1] % 64) + 1 ELSE 1
         IN IF Len(p) < size THEN -1
            ELSE LET rest == OpcodePixels(Drop(p, size)) IN
                 IF rest = -1 THEN -1 ELSE count + rest

EndsWithEndMarker(p) ==
    Len(p) >= 8 /\ SubSeq(p, Len(p) - 7, Len(p)) = EndMarker

---------------------------------------------------------------------------
(* C1: whenever parse_image_content returns Ok(buffer), the length of the  *)
(* buffer is exactly width * height * channels.                            *)
C1_OkLengthIsProduct ==
    (Returned /\ result.kind = "Ok") =>
        /\ Len(result.buffer) % ChannelCount(header.channels) = 0
        /\ IsProduct(Len(result.buffer) \div ChannelCount(header.channels),
                     header.width, header.height)

(* C2: a payload of complete pixel opcodes that encodes exactly            *)
(* width * height pixels and carries no trailing end marker decodes        *)
(* successfully; a 1x1 RGB image with payload [0b11000000] decodes to the  *)
(* single pixel (0,0,0).                                                   *)
C2_EndMarkerNotRequired ==
    (Returned /\ result.kind # "Panic") =>
        /\ (/\ OpcodePixels(content_bytes) # -1
            /\ IsProduct(OpcodePixels(content_bytes), header.width, header.height)
            /\ ~EndsWithEndMarker(content_bytes))
           => result.kind = "Ok"
        /\ (/\ header.width = 1 /\ header.height = 1 /\ header.channels = "Rgb"
            /\ content_bytes = <<192>>)
           => result = Success(<<0, 0, 0>>)

(* C3: parse_image_content returns TooManyPixels whenever the number of    *)
(* pixels produced so far exceeds width * height after some opcode,        *)
(* whatever bytes follow that opcode.                                      *)
C3_OvershootIsTooManyPixels ==
    (Returned /\ ExceedsProduct(Len(produced), header.width, header.height))
        => result.kind = "TooManyPixels"

(* C4: when the payload is exhausted before width * height pixels have     *)
(* been produced, at an opcode boundary or inside an opcode,               *)
(* parse_image_content returns TooFewPixels.                               *)
C4_ExhaustedIsTooFewPixels ==
    (Returned /\ result.kind # "Panic"
     /\ BelowProduct(Len(produced), header.width, header.height))
        => result.kind = "TooFewPixels"


---------------------------------------------------------------------------
\* a byte that is a RUN tag: top two bits 11, and not the RGB or RGBA tag
RunByte(b) == TopBits(b) = 3 /\ b \notin {254, 255}

Copies(pixel, n) == <<>> \o [i \in 1 .. n |-> pixel]

\* the pixels as a flat buffer: R,G,B per pixel for RGB, R,G,B,A for RGBA
Packed(px, channels) ==
    LET n == IF channels = "Rgb" THEN 3 ELSE 4 IN
    <<>> \o [i \in 1 .. n * Len(px) |->
        LET q == px[((i - 1) \div n) + 1]
            k == (i - 1) % n
        IN IF k = 0 THEN q.red ELSE IF k = 1 THEN q.green
           ELSE IF k = 2 THEN q.blue ELSE q.alpha]

\* an iteration of the decode loop that accepted an opcode
Accepted == pc = "loop" /\ bytes_left # <<>> /\ pc' = "loop"

ColorBytes(ct) == IF ct = "Rgb8" THEN 3 ELSE 4

(* C6: the output buffer holds, for each produced pixel in order, R,G,B    *)
(* when the header says RGB and R,G,B,A when it says RGBA, and that many   *)
(* bytes per pixel as the colour type the decoder reports.                 *)
C6_BufferLayout ==
    /\ pc \in {"loop", "done"} =>
          /\ pixels = Packed(produced, header.channels)
          /\ Len(pixels) = Len(produced) * ColorBytes(color_type(header))
    /\ (pc = "lib_done" /\ result.kind = "Ok") =>
          /\ result.buffer = Packed(produced, header.channels)
          /\ Len(result.buffer) = Len(produced) * ColorBytes(color_type(header))

\* parse_image_header of parser.rs, or of lib.rs, has returned
HeaderReturned == pc = "header_done"
LibHeaderReturned == pc = "lib_header_done"

(* C7: a 14-byte input made of "qoif", a big-endian width, a big-endian    *)
(* height, a channel byte 3 or 4 and a colorspace byte 0 or 1 parses to    *)
(* exactly that width, height, channels and colorspace.                    *)
C7_ValidHeaderRecovered ==
    \A w \in Widths, h \in Heights, c \in {3, 4}, s \in {0, 1} :
        ((HeaderReturned \/ LibHeaderReturned)
         /\ header_bytes = HeaderBytes(QOIF_MAGIC, w, h, c, s))
        => hres = OkHeader(Header(w, h,
                                  IF c = 3 THEN "Rgb" ELSE "Rgba",
                                  IF s = 0 THEN "Srgb" ELSE "Linear"))

C7_Witness ==
    /\ HeaderReturned
    /\ header_bytes = HeaderBytes(QOIF_MAGIC, BigDim, 1, 4, 1)
    /\ hres.ok
    /\ hres.header = Header(BigDim, 1, "Rgba", "Linear")

\* the input starts with the magic
HasMagic(hb) == Len(hb) >= 4 /\ SubSeq(hb, 1, 4) = QOIF_MAGIC

(* the input ends before one of the reads: the magic (4 bytes), the width  *)
(* and height (4 bytes each), the channel byte, or the colorspace byte     *)
(* that is read after a valid channel byte                                 *)
RunsOut(hb) ==
    \/ Len(hb) < 4
    \/ HasMagic(hb) /\ Len(hb) < 13
    \/ HasMagic(hb) /\ Len(hb) = 13 /\ hb[13] \in {3, 4}

(* C8: whenever parse_image_header runs out of input at one of its read    *)
(* steps, it returns TooShortHeader.                                       *)
C8_RunsOutIsTooShortHeader ==
    (HeaderReturned /\ RunsOut(header_bytes)) => hres.kind = "TooShortHeader"

(* C9: an input of at least 4 bytes whose first 4 bytes are not "qoif"     *)
(* yields InvalidMagic, whatever follows.                                  *)
C9_WrongMagicIsInvalidMagic ==
    (HeaderReturned /\ Len(header_bytes) >= 4 /\ ~HasMagic(header_bytes))
        => hres.kind = "InvalidMagic"

\* a wrong magic followed by too few bytes
C9_Witness ==
    /\ HeaderReturned
    /\ header_bytes = SubSeq(HeaderBytes(BadMagic, 1, 1, 5, 2), 1, 6)
    /\ hres.kind = "InvalidMagic"

\* a complete header that starts with the magic
FullWithMagic == HeaderReturned /\ Len(header_bytes) = 14 /\ HasMagic(header_bytes)

(* C10 as stated: in a 14-byte header that starts with "qoif", a channel   *)
(* byte other than 3 or 4 always yields InvalidChannels and a colorspace   *)
(* byte other than 0 or 1 always yields InvalidColorspace.                 *)
C10_Original ==
    FullWithMagic =>
        /\ header_bytes[13] \notin {3, 4} => hres.kind = "InvalidChannels"
        /\ header_bytes[14] \notin {0, 1} => hres.kind = "InvalidColorspace"

(* C10 amended: a channel byte other than 3 or 4 always yields             *)
(* InvalidChannels; a colorspace byte other than 0 or 1 yields             *)
(* InvalidColorspace when the channel byte is 3 or 4.                      *)
C10_ChannelsBeforeColorspace ==
    FullWithMagic =>
        /\ header_bytes[13] \notin {3, 4} => hres.kind = "InvalidChannels"
        /\ (header_bytes[13] \in {3, 4} /\ header_bytes[14] \notin {0, 1})
           => hres.kind = "InvalidColorspace"

\* both bytes invalid
C10_Witness ==
    /\ FullWithMagic
    /\ header_bytes[13] = 5
    /\ header_bytes[14] = 2
    /\ hres.kind = "InvalidChannels"

---------------------------------------------------------------------------

(* The index position of a pixel as the format defines it: the sum        *)
(* red*3 + green*5 + blue*7 + alpha*11 with every product and every sum    *)
(* kept to 8 bits, then reduced modulo 64.                                 *)
Wrapping8Hash(pixel) ==
    LET r3 == (pixel.red * 3) % U8
        g5 == (pixel.green * 5) % U8
        b7 == (pixel.blue * 7) % U8
        a11 == (pixel.alpha * 11) % U8
    IN ((((((r3 + g5) % U8) + b7) % U8) + a11) % U8) % 64

\* a decode of parser.rs is under way or has returned
ParserDecoding == pc \in {"loop", "done"}
\* a decode of lib.rs has returned its pixels
LibDecoded == pc = "lib_done" /\ result.kind = "Ok"

(* C11: after every produced pixel, previous is that pixel and the cache   *)
(* slot at its index position holds it, in both decoders and after any     *)
(* sequence of opcodes.                                                    *)
C11_LastPixelIsPrevAndCached ==
    ((ParserDecoding \/ LibDecoded) /\ produced # <<>>) =>
        LET p == produced[Len(produced)] IN
        /\ state.prev = p
        /\ state.seen[Wrapping8Hash(p)] = p

\* the loop starts: parse_image_content has set up its state
LoopEntered == pc # "loop" /\ pc' = "loop"
\* the pixels a step appends to the produced sequence
NewPixels == SubSeq(produced', Len(produced) + 1, Len(produced'))

(* C12: the cache of parser.rs is direct-mapped with plain overwrite.  The *)
(* loop starts with nothing produced and every slot zero, and an accepted  *)
(* iteration leaves every slot that is not the index position of a pixel   *)
(* it produced as it was, and puts in each other slot the last pixel it    *)
(* produced with that index position.  So at every point a slot holds the  *)
(* zero pixel if no produced pixel has its index position and otherwise    *)
(* the most recently produced pixel that has it.                           *)
C12_CacheIsDirectMapped ==
    [][/\ LoopEntered =>
              /\ produced' = <<>>
              /\ \A i \in 0 .. 63 : state'.seen[i] = DefaultPixel
       /\ Accepted =>
              LET new == NewPixels
                  n == Len(new)
                  hs == [k \in 1 .. n |-> Wrapping8Hash(new[k])]
                  H == {hs[k] : k \in 1 .. n}
              IN /\ \A i \in (0 .. 63) \ H : state'.seen[i] = state.seen[i]
                 /\ \A k \in 1 .. n :
                        (\A j \in k + 1 .. n : hs[j] # hs[k])
                            => state'.seen[hs[k]] = new[k]]_vars

\* slot 41 held the RGB pixel and now holds the RGBA pixel that evicted it
C12_Witness ==
    /\ pc = "loop"
    /\ produced = <<Pixel(0, 127, 255, 255), Pixel(1, 2, 3, 53)>>
    /\ state.seen[41] = Pixel(1, 2, 3, 53)

\* the loop is about to dispatch on the byte at an opcode boundary
AtOpcode == pc = "loop" /\ bytes_left # <<>>

(* C13: a byte at an opcode boundary whose top two bits are 00 is always   *)
(* decoded as INDEX: one byte is consumed and exactly one pixel is         *)
(* produced, the cache slot of its low 6 bits; also when the byte begins   *)
(* the sequence 00 00 00 00 00 00 00 01.                                   *)
C13_ZeroTagIsIndex ==
    [][(AtOpcode /\ TopBits(bytes_left[1]) = 0) =>
          /\ pc' = "loop"
          /\ last_op' = "qoi_op_index"
          /\ bytes_left' = Drop(bytes_left, 1)
          /\ NewPixels = <<state.seen[bytes_left[1] % 64]>>]_vars

\* the remaining payload starts with the eight bytes of the end marker
AtEndMarker ==
    /\ AtOpcode
    /\ Len(bytes_left) >= Len(EndMarker)
    /\ SubSeq(bytes_left, 1, Len(EndMarker)) = EndMarker

(* C14: consuming the end marker is a no-op on the decode state: exactly   *)
(* 8 bytes are consumed, nothing is appended to the output, and previous   *)
(* and all 64 cache slots stay as they were.                               *)
C14_EndMarkerIsNoOp ==
    [][AtEndMarker =>
          /\ pc' = "loop"
          /\ last_op' = "qoi_op_end"
          /\ bytes_left' = Drop(bytes_left, 8)
          /\ pixels' = pixels
          /\ produced' = produced
          /\ state' = state]_vars

\* the marker was consumed after a pixel had been produced and cached
C14_Witness ==
    /\ pc = "loop"
    /\ last_op = "qoi_op_end"
    /\ content_bytes = <<254, 0, 127, 255>> \o EndMarker
    /\ bytes_left = <<>>
    /\ produced = <<Pixel(0, 127, 255, 255)>>
    /\ state.prev = Pixel(0, 127, 255, 255)
    /\ state.seen[41] = Pixel(0, 127, 255, 255)

(* C15: the end marker is a terminator: once it has been consumed no later *)
(* byte of the payload is decoded into a pixel or changes previous or the  *)
(* cache.  (Only qoi_op_end leaves last_op at "qoi_op_end", so the marker  *)
(* has been consumed and nothing decoded since exactly when last_op says   *)
(* so.)                                                                    *)
C15_EndMarkerTerminates ==
    [][last_op = "qoi_op_end" =>
          /\ produced' = produced
          /\ pixels' = pixels
          /\ state' = state]_vars

\* n modulo 256 for n from -256 up
Mod256(n) == (n + U8) % U8

C18_RgbAndRgba ==
    [][/\ (Accepted /\ bytes_left[1] = 254) =>
              /\ last_op' = "qoi_op_rgb"
              /\ NewPixels = <<Pixel(bytes_left[2], bytes_left[3], bytes_left[4],
                                     state.prev.alpha)>>
              /\ bytes_left' = Drop(bytes_left, 4)
       /\ (Accepted /\ bytes_left[1] = 255) =>
              /\ last_op' = "qoi_op_rgba"
              /\ NewPixels = <<Pixel(bytes_left[2], bytes_left[3], bytes_left[4],
                                     bytes_left[5])>>
              /\ bytes_left' = Drop(bytes_left, 5)]_vars

\* an RGB opcode behind an RGBA opcode took over its alpha
C18_Witness ==
    /\ pc = "loop"
    /\ last_op = "qoi_op_rgb"
    /\ content_bytes = <<255, 1, 2, 3, 23, 254, 254, 127, 1>>
    /\ produced = <<Pixel(1, 2, 3, 23), Pixel(254, 127, 1, 23)>>

\* the payload is one RGBA opcode and the decoder has gone past it
OneRgbaDecoded ==
    /\ Len(content_bytes) = 5
    /\ content_bytes[1] = 255
    /\ \/ pc = "loop" /\ bytes_left = <<>>
       \/ pc \in {"done", "lib_done"}

(* C19: for every pixel hash_pixel returns the index position of the       *)
(* format, the sum red*3 + green*5 + blue*7 + alpha*11 in wrapping 8-bit   *)
(* arithmetic reduced modulo 64, a value in 0 .. 63, in parser.rs, which   *)
(* computes in usize, and in lib.rs, which computes in u8: after the       *)
(* pixel of an RGBA opcode has been stored, the slot at its index position *)
(* holds it and every other slot is still zero.                            *)
C19_HashIsWrapping8 ==
    OneRgbaDecoded =>
        LET p == Pixel(content_bytes[2], content_bytes[3], content_bytes[4],
                       content_bytes[5])
        IN /\ result.kind # "Panic"
           /\ Wrapping8Hash(p) \in 0 .. 63
           /\ \A i \in 0 .. 63 :
                 state.seen[i] = IF i = Wrapping8Hash(p) THEN p ELSE DefaultPixel

(* C20: parse_image_content never returns InvalidPixel: whatever byte      *)
(* stands at an opcode boundary, one of the seven handlers accepts it or   *)
(* returns Invalid, so the loop never falls off the end of the list.       *)
C20_NeverInvalidPixel == Returned => result.kind # "InvalidPixel"

(* a RUN byte, refused by the six handlers before qoi_op_run and taken by  *)
(* the last one; the decode went on and returned                           *)
C20_Witness ==
    /\ Returned
    /\ content_bytes = <<253, 0, 0, 0, 0, 0, 0, 1>>
    /\ last_op = "qoi_op_run"
    /\ Len(produced) = 62
    /\ result.kind = "TooFewPixels"

(* C21: decoding always terminates.  An iteration of the loop either       *)
(* returns or leaves a strictly shorter remaining input, every handler     *)
(* that succeeds having consumed at least one byte; the remaining input    *)
(* starts as the n bytes of the payload, so the loop runs at most n        *)
(* iterations, and a decode that has entered the loop returns.             *)
C21_DecodingTerminates ==
    /\ [][LoopEntered => bytes_left' = content_bytes']_vars
    /\ [][AtOpcode => (pc' = "done" \/ Len(bytes_left') < Len(bytes_left))]_vars
    /\ (pc = "loop") ~> Returned

\* a decode that took two iterations, RGB and the end marker, and returned
C21_Witness ==
    /\ Returned
    /\ content_bytes = <<254, 0, 127, 255>> \o EndMarker
    /\ bytes_left = <<>>
    /\ last_op = "qoi_op_end"
    /\ result.kind = "Ok"

(* C22: for every header the target length parse_image_content compares    *)
(* the output against, height * width * channels in 32-bit unsigned        *)
(* arithmetic, is the mathematical product: the multiplication never       *)
(* overflows, so the call neither panics nor computes a wrapped length.    *)
C22_TargetLenIsProduct ==
    ParserDecoding =>
        /\ result.kind # "Panic"
        /\ result_len % ChannelCount(header.channels) = 0
        /\ IsProduct(result_len \div ChannelCount(header.channels),
                     header.width, header.height)

===========================================================================
